---- MODULE Spec2Model ----
(***************************************************************************)
(* The update lifecycle state machine of updatehub (src/src/states):       *)
(* the driver loop of mod.rs, the transition hook of transition.rs and the *)
(* handle operation of Idle, Park, Poll, Probe, Download, Install, Reboot. *)
(***************************************************************************)
EXTENDS Integers, Sequences, FiniteSets, TLC

\* ------------------------------------------------------------------ bounds
MaxTime == 5          \* the wall clock runs over 0..MaxTime
StartTime == 2        \* the wall clock when the agent starts
MaxInterval == 3      \* settings.polling.interval is 1 or MaxInterval seconds
MaxExtra == 2         \* ExtraPoll(n) and a loaded extra_interval: n in 1..MaxExtra
MaxFails == 2         \* failed probe attempts inside one Probe
MaxPieces == 3        \* pieces a hook output is made of, when the protocol is tabulated

\* ------------------------------------------------------------ option type
None == <<>>
Some(x) == <<x>>
unwrap_or(o, d) == IF o = None THEN d ELSE o[1]

\* ---------------------------------------------------------------- packages
Shas == {"a", "b"}
Leftover == "leftover-file"
Names == Shas \cup {Leftover}

NoPkg == [uid |-> "none", objects |-> <<>>, hw_ok |-> TRUE]
PkgAB == [uid |-> "u1", objects |-> <<"a", "b">>, hw_ok |-> TRUE]
PkgB == [uid |-> "u2", objects |-> <<"b">>, hw_ok |-> TRUE]
PkgBadHw == [uid |-> "u3", objects |-> <<"a">>, hw_ok |-> FALSE]
Packages == {PkgAB, PkgB, PkgBadHw}

package_uid(p) == p.uid
compatible_with(p) == p.hw_ok
ShaSet(p) == {p.objects[i] : i \in 1..Len(p.objects)}

\* --------------------------------------------------------------- variables
VARIABLES
    settings,   \* Settings: polling.enabled, polling.interval, storage.read_only
    rs,         \* RuntimeSettings held by the current state (in memory)
    disk,       \* the runtime-settings file
    applied,    \* applied_package_uid held by the current state
    state,      \* the kind of the current state
    pkg,        \* update_package held by Download and Install
    dir,        \* download_dir: file name -> content
    clock,      \* Utc::now()
    run,        \* the driver: "running", "parked" (returned), "panicked"
    poll,       \* Poll's sleep path: the state's thread and the worker thread
    ev          \* what the last step did (history variable)

vars == <<settings, rs, disk, applied, state, pkg, dir, clock, run, poll, ev>>

\* No Poll is on its sleep path
NoThreads == [main |-> "none", worker |-> "none"]

NoEv == [kind |-> "none", verdict |-> "NotRun", resp |-> "none", secs |-> 0,
         slept |-> 0, attempts |-> 0, fails |-> 0, saved |-> FALSE,
         removed |-> {}, fetched |-> <<>>, rebooted |-> FALSE, err |-> "none",
         uid |-> "none", hw_ok |-> TRUE, at |-> 0, after_extra |-> None,
         had |-> None]

\* ------------------------------------------------- transition.rs: the hook
Whitespace == {" ", "\n", "\t"}
Cancel_str == <<"c", "a", "n", "c", "e", "l">>

RECURSIVE trim_start(_)
trim_start(s) ==
    IF s # <<>> /\ Head(s) \in Whitespace THEN trim_start(Tail(s)) ELSE s

RECURSIVE trim_end(_)
trim_end(s) ==
    IF s # <<>> /\ s[Len(s)] \in Whitespace
    THEN trim_end(SubSeq(s, 1, Len(s) - 1)) ELSE s

trim(s) == trim_end(trim_start(s))

\* str::splitn(2, ' '): split at the first space, at most two pieces
splitn2(s) ==
    IF \E i \in 1..Len(s) : s[i] = " "
    THEN LET i == CHOOSE k \in 1..Len(s) :
                      s[k] = " " /\ \A j \in 1..(k - 1) : s[j] # " "
         IN <<SubSeq(s, 1, i - 1), SubSeq(s, i + 1, Len(s))>>
    ELSE <<s>>

HookOutputs ==
    { <<"\n">>, Cancel_str \o <<"\n">>, Cancel_str \o <<" ", "x", "\n">> }

NoHook == [exists |-> FALSE, out |-> <<>>]
Hooks == {NoHook}
            \cup {[exists |-> TRUE, out |-> o] : o \in HookOutputs}

\* (mutant) only the first token of the output is looked at
state_change_callback_FirstToken(name, hook) ==
    IF name = None THEN "Continue"
    ELSE IF ~hook.exists THEN "Continue"
    ELSE LET stdout == splitn2(trim(hook.out)) IN
         IF stdout[1] = Cancel_str THEN "Cancel"
         ELSE IF stdout[1] = <<>> THEN "Continue"
         ELSE "Error"

state_change_callback(name, hook) ==
    IF name = None THEN "Continue"
    ELSE IF ~hook.exists THEN "Continue"
    ELSE LET stdout == splitn2(trim(hook.out)) IN
         IF stdout = <<Cancel_str>> THEN "Cancel"
         ELSE IF stdout = << <<>> >> THEN "Continue"
         ELSE "Error"

\* ----------------------------------------------------- mod.rs: the driver
callback_state_name(s) ==
    CASE s = "Download" -> Some("download")
      [] s = "Install" -> Some("install")
      [] s = "Reboot" -> Some("reboot")
      [] OTHER -> None

\* A StateTransitioner (or the error handle returned): t.ok, t.next, t.rs,
\* t.applied, t.pkg
transition(t) ==
    [state |-> t.next, rs |-> t.rs, applied |-> t.applied, pkg |-> t.pkg]

\* (mutant) the verdict is ignored and the transition is taken
cancel_Ignored(t) == transition(t)

cancel(t) ==
    [state |-> "Idle", rs |-> t.rs, applied |-> t.applied, pkg |-> NoPkg]

\* State::handle_callbacks, after self.handle() returned t
handle_callbacks(cur, t, hook) ==
    LET callback == callback_state_name(cur) IN
    IF ~t.ok THEN [ok |-> FALSE, verdict |-> "NotRun", s |-> transition(t)]
    ELSE IF callback = None
    THEN [ok |-> TRUE, verdict |-> "NotRun", s |-> transition(t)]
    ELSE LET v == state_change_callback(callback, hook) IN
         CASE v = "Continue" -> [ok |-> TRUE, verdict |-> v, s |-> transition(t)]
           [] v = "Cancel" -> [ok |-> TRUE, verdict |-> v, s |-> cancel(t)]
           [] OTHER -> [ok |-> FALSE, verdict |-> v, s |-> transition(t)]

\* (mutant) the loop does not stop at Park
inner_runner_NoPark(r) == IF ~r.ok THEN "panicked" ELSE "running"

\* run::inner_runner on the result of handle_callbacks
inner_runner(r) ==
    IF ~r.ok THEN "panicked"
    ELSE IF r.s.state = "Park" THEN "parked"
    ELSE "running"

\* One turn of the driver loop for the state `cur` whose handle returned t.
Drive(cur, t, hook, e) ==
    LET r == handle_callbacks(cur, t, hook) IN
    /\ run' = inner_runner(r)
    /\ poll' = NoThreads
    /\ state' = IF r.ok THEN r.s.state ELSE cur
    /\ rs' = r.s.rs
    /\ applied' = r.s.applied
    /\ pkg' = IF r.ok THEN r.s.pkg ELSE pkg
    /\ ev' = [e EXCEPT !.kind = cur, !.verdict = r.verdict,
                       !.had = applied,
                       !.err = IF r.ok THEN "none"
                               ELSE IF ~t.ok THEN t.err ELSE "callback"]

Ok(next, r, a, p) ==
    [ok |-> TRUE, next |-> next, rs |-> r, applied |-> a, pkg |-> p, err |-> "none"]
Err(cur, r, a, p, why) ==
    [ok |-> FALSE, next |-> cur, rs |-> r, applied |-> a, pkg |-> p, err |-> why]

Running(s) == run = "running" /\ state = s

\* ------------------------------------------------------------------ Idle
\* (mutant) polling.enabled is not looked at
IdleHandle_AlwaysPoll == Ok("Poll", rs, applied, NoPkg)

IdleHandle ==
    IF ~settings.enabled THEN Ok("Park", rs, applied, NoPkg)
    ELSE Ok("Poll", rs, applied, NoPkg)

IdleStep ==
    /\ Running("Idle")
    /\ Drive("Idle", IdleHandle, NoHook, NoEv)
    /\ UNCHANGED <<settings, disk, dir, clock>>

\* ------------------------------------------------------------------ Park
ParkHandle == Ok("Park", rs, applied, NoPkg)

\* ------------------------------------------------------------------ Poll
\* runtime_settings.polling.last, or the synthesized now + offset
LastPoll(r, current_time, offset) ==
    IF r.last = None THEN current_time + offset ELSE r.last[1]

\* (mutant) the probe-now flag is not looked at
PollDecision_IgnoreNow(r, last_poll, current_time) ==
    IF last_poll > current_time THEN "future"
    ELSE IF last_poll + unwrap_or(r.extra, 0) < current_time THEN "due"
    ELSE "sleep"

\* (mutant) a last poll in the future is not looked at
PollDecision_NoFuture(r, last_poll, current_time) ==
    IF r.now THEN "now"
    ELSE IF last_poll + unwrap_or(r.extra, 0) < current_time THEN "due"
    ELSE "sleep"

\* The branch Poll::handle takes: "now", "future", "due" or "sleep"
PollDecision(r, last_poll, current_time) ==
    IF r.now THEN "now"
    ELSE IF last_poll > current_time THEN "future"
    ELSE IF last_poll + unwrap_or(r.extra, 0) < current_time THEN "due"
    ELSE "sleep"

\* (mutant) the worker sleeps until the deadline, not for the interval
PollSleep_UntilDeadline(d, r, last_poll, current_time) ==
    IF d = "sleep" THEN last_poll + unwrap_or(r.extra, 0) - current_time ELSE 0

\* Seconds the worker thread sleeps before Poll is woken (0: no sleep)
PollSleep(d, r, last_poll, current_time) ==
    IF d = "sleep" THEN settings.interval ELSE 0

\* (mutant) Poll records the time of its hand-over as the last poll
PollHandle_StampsLast ==
    Ok("Probe", [rs EXCEPT !.last = Some(clock)], applied, NoPkg)

PollHandle == Ok("Probe", rs, applied, NoPkg)

AfterExtra ==
    IF ev.kind = "Probe" /\ ev.resp = "ExtraPoll"
    THEN Some([n |-> ev.secs, at |-> ev.at]) ELSE None

\* Poll::handle up to the three early returns, or to thread::spawn
PollStep ==
    /\ Running("Poll")
    /\ poll = NoThreads
    /\ \E offset \in 0..(settings.interval - 1) :
         LET current_time == clock
             last_poll == LastPoll(rs, current_time, offset)
             d == PollDecision(rs, last_poll, current_time)
             nap == PollSleep(d, rs, last_poll, current_time)
         IN IF d # "sleep"
            THEN /\ Drive("Poll", PollHandle, NoHook,
                          [NoEv EXCEPT !.at = current_time,
                                       !.after_extra = AfterExtra])
                 /\ UNCHANGED <<settings, disk, dir, clock>>
            ELSE /\ poll' = [main |-> "spawned", worker |-> "sleeping"]
                 /\ ev' = [NoEv EXCEPT !.kind = "PollSpawn",
                                       !.secs = nap,
                                       !.at = current_time,
                                       !.after_extra = AfterExtra]
                 /\ UNCHANGED <<settings, rs, disk, applied, state, pkg,
                                dir, clock, run>>

\* The state's thread: lock the mutex and wait on the condition variable
PollWait ==
    /\ Running("Poll")
    /\ poll.main = "spawned"
    /\ poll' = [poll EXCEPT !.main = "waiting"]
    /\ UNCHANGED <<settings, rs, disk, applied, state, pkg, dir, clock, run, ev>>

\* The worker thread: thread::sleep(interval), then cvar.notify_one(), which
\* wakes the state's thread only if it is waiting by then
WorkerNotify ==
    /\ Running("Poll")
    /\ poll.worker = "sleeping"
    /\ clock + ev.secs <= MaxTime
    /\ clock' = clock + ev.secs
    /\ poll' = [main |-> IF poll.main = "waiting" THEN "woken" ELSE poll.main,
                worker |-> "done"]
    /\ UNCHANGED <<settings, rs, disk, applied, state, pkg, dir, run, ev>>

\* The state's thread, woken: Poll::handle returns Probe
PollWoken ==
    /\ Running("Poll")
    /\ poll.main = "woken"
    /\ Drive("Poll", PollHandle, NoHook,
             [NoEv EXCEPT !.slept = 1,
                          !.secs = ev.secs,
                          !.at = ev.at,
                          !.after_extra = ev.after_extra])
    /\ UNCHANGED <<settings, disk, dir, clock>>

\* ----------------------------------------------------------------- Probe
Responses ==
    {[kind |-> "NoUpdate", secs |-> 0, pkg |-> NoPkg]}
        \cup {[kind |-> "ExtraPoll", secs |-> n, pkg |-> NoPkg] : n \in 1..MaxExtra}
        \cup {[kind |-> "Update", secs |-> 0, pkg |-> p] : p \in Packages}

\* A failed attempt of the retry loop: count it, sleep one second, try again
ProbeRetry(r) == [r EXCEPT !.retries = @ + 1]

\* (mutant) a failed attempt ends Probe with the error
ProbeFail_GivesUp ==
    /\ Running("Probe")
    /\ ev.fails < MaxFails
    /\ run' = "panicked"
    /\ ev' = [NoEv EXCEPT !.kind = "ProbeRetry",
                          !.attempts = ev.attempts + 1,
                          !.fails = ev.fails + 1,
                          !.err = "probe"]
    /\ UNCHANGED <<settings, rs, disk, applied, state, pkg, dir, clock, poll>>

ProbeFail ==
    /\ Running("Probe")
    /\ ev.fails < MaxFails
    /\ clock < MaxTime
    /\ rs' = ProbeRetry(rs)
    /\ clock' = clock + 1
    /\ ev' = [NoEv EXCEPT !.kind = "ProbeRetry",
                          !.attempts = ev.attempts + 1,
                          !.fails = ev.fails + 1]
    /\ UNCHANGED <<settings, disk, applied, state, pkg, dir, run, poll>>

\* (mutant) the retries counter is not reset on success
ProbeSettings_KeepRetries(r, resp) ==
    [r EXCEPT !.extra = IF resp.kind = "ExtraPoll" THEN Some(resp.secs) ELSE None]

\* (mutant) extra_interval is only ever set, never cleared
ProbeSettings_KeepExtra(r, resp) ==
    [r EXCEPT !.retries = 0,
              !.extra = IF resp.kind = "ExtraPoll" THEN Some(resp.secs) ELSE @]

\* The runtime settings once the loop has left with response resp
ProbeSettings(r, resp) ==
    [r EXCEPT !.retries = 0,
              !.extra = IF resp.kind = "ExtraPoll" THEN Some(resp.secs) ELSE None]

\* Whether Probe and Install call runtime_settings.save()
Saves == ~settings.read_only

\* (mutant) the applied package is not compared with the advertised one
ProbeHandle_NoDedup(r, a, resp, saved) ==
    IF Saves /\ ~saved THEN Err("Probe", r, a, NoPkg, "save")
    ELSE CASE resp.kind = "NoUpdate" -> Ok("Idle", r, a, NoPkg)
           [] resp.kind = "ExtraPoll" -> Ok("Poll", r, a, NoPkg)
           [] OTHER ->
                IF ~compatible_with(resp.pkg)
                THEN Err("Probe", r, a, NoPkg, "hardware")
                ELSE Ok("Download", r, None, resp.pkg)

\* (mutant) the hardware compatibility is not checked
ProbeHandle_NoHwCheck(r, a, resp, saved) ==
    IF Saves /\ ~saved THEN Err("Probe", r, a, NoPkg, "save")
    ELSE CASE resp.kind = "NoUpdate" -> Ok("Idle", r, a, NoPkg)
           [] resp.kind = "ExtraPoll" -> Ok("Poll", r, a, NoPkg)
           [] OTHER ->
                IF Some(package_uid(resp.pkg)) = a
                THEN Ok("Idle", r, a, NoPkg)
                ELSE Ok("Download", r, None, resp.pkg)

\* (mutant) the hardware check and the comparison of the uids come first,
\* the save only on the way to Idle, Poll or Download
ProbeHandle_ChecksFirst(r, a, resp, saved) ==
    IF resp.kind = "Update" /\ ~compatible_with(resp.pkg)
    THEN Err("Probe", r, a, NoPkg, "hardware")
    ELSE IF resp.kind = "Update" /\ Some(package_uid(resp.pkg)) = a
    THEN Ok("Idle", r, a, NoPkg)
    ELSE IF Saves /\ ~saved THEN Err("Probe", r, a, NoPkg, "save")
    ELSE CASE resp.kind = "NoUpdate" -> Ok("Idle", r, a, NoPkg)
           [] resp.kind = "ExtraPoll" -> Ok("Poll", r, a, NoPkg)
           [] OTHER -> Ok("Download", r, None, resp.pkg)

\* Probe::handle after the loop: the settings are r (already updated and, when
\* saved is TRUE or the deployment is read-only, past the save)
ProbeHandle(r, a, resp, saved) ==
    IF Saves /\ ~saved THEN Err("Probe", r, a, NoPkg, "save")
    ELSE CASE resp.kind = "NoUpdate" -> Ok("Idle", r, a, NoPkg)
           [] resp.kind = "ExtraPoll" -> Ok("Poll", r, a, NoPkg)
           [] OTHER ->
                IF ~compatible_with(resp.pkg)
                THEN Err("Probe", r, a, NoPkg, "hardware")
                ELSE IF Some(package_uid(resp.pkg)) = a
                THEN Ok("Idle", r, a, NoPkg)
                ELSE Ok("Download", r, None, resp.pkg)

ProbeSucceed ==
    /\ Running("Probe")
    /\ \E resp \in Responses, saveOk \in BOOLEAN :
         LET r == ProbeSettings(rs, resp)
             saved == Saves /\ saveOk
         IN /\ disk' = IF saved THEN r ELSE disk
            /\ Drive("Probe", ProbeHandle(r, applied, resp, saved), NoHook,
                     [NoEv EXCEPT !.resp = resp.kind,
                                  !.secs = resp.secs,
                                  !.uid = package_uid(resp.pkg),
                                  !.hw_ok = compatible_with(resp.pkg),
                                  !.attempts = ev.attempts + 1,
                                  !.fails = ev.fails,
                                  !.saved = saved,
                                  !.at = clock])
    /\ UNCHANGED <<settings, dir, clock>>

\* -------------------------------------------------------------- Download
\* update_package::Object::status, from the file found under the object's name
\* ("Error": the status cannot be computed, status() returns Err)
ObjectStatus(d, sha) ==
    CASE d[sha] = "absent" -> "Missing"
      [] d[sha] = "short" -> "Incomplete"
      [] d[sha] = "bad" -> "Corrupted"
      [] d[sha] = "unreadable" -> "Error"
      [] OTHER -> "Ready"

\* UpdatePackage::filter_objects: the objects with status st, in package order
filter_objects(p, d, st) ==
    SelectSeq(p.objects, LAMBDA o : ObjectStatus(d, o) = st)

\* (mutant) only files that do not look like an object are removed
Foreign_OnlyLeftover(d, p) == {n \in Names \ Shas : d[n] # "absent"}

\* Files the first loop removes: present, and not named by an object's sha256sum
Foreign(d, p) == {n \in Names : d[n] # "absent" /\ n \notin ShaSet(p)}

\* (mutant) corrupted objects are left in place
Corrupted_Kept(d, p) == {}

\* Files the second loop removes
Corrupted(d, p) == {n \in ShaSet(p) : ObjectStatus(d, n) = "Corrupted"}

\* (mutant) nothing is removed
Remove_Nothing(d, gone) == d

Remove(d, gone) == [n \in Names |-> IF n \in gone THEN "absent" ELSE d[n]]

\* What Api::download_object leaves under the object's name
DlOutcomes == {"good", "bad", "fail", "failpartial"}
Streamed(was, out) ==
    CASE out = "good" -> "good"
      [] out = "bad" -> "bad"
      [] out = "failpartial" -> "short"
      [] OTHER -> was

\* (mutant) a failed download does not end the loop
FetchAll_KeepsGoing(d, todo, out) ==
    LET objs == {todo[i] : i \in 1..Len(todo)} IN
    [dir |-> [n \in Names |-> IF n \in objs THEN Streamed(d[n], out[n]) ELSE d[n]],
     fetched |-> todo,
     ok |-> \A o \in objs : out[o] \notin {"fail", "failpartial"}]

\* The third loop: download_object for each object of todo, until one fails
RECURSIVE FetchAll(_, _, _)
FetchAll(d, todo, out) ==
    IF todo = <<>> THEN [dir |-> d, fetched |-> <<>>, ok |-> TRUE]
    ELSE LET o == Head(todo)
             d2 == [d EXCEPT ![o] = Streamed(d[o], out[o])]
         IN IF out[o] \in {"fail", "failpartial"}
            THEN [dir |-> d2, fetched |-> <<o>>, ok |-> FALSE]
            ELSE LET rest == FetchAll(d2, Tail(todo), out)
                 IN [dir |-> rest.dir, fetched |-> <<o>> \o rest.fetched,
                     ok |-> rest.ok]

\* (mutant) an object whose status cannot be computed passes the gate
AllReady_ErrorsPass(d, p) ==
    \A i \in 1..Len(p.objects) :
        ObjectStatus(d, p.objects[i]) \in {"Ready", "Error"}

AllReady(d, p) ==
    \A i \in 1..Len(p.objects) : ObjectStatus(d, p.objects[i]) = "Ready"

\* (mutant) the incomplete objects are fetched before the missing ones
Todo_IncompleteFirst(p, d) ==
    filter_objects(p, d, "Incomplete") \o filter_objects(p, d, "Missing")

\* The objects the third loop iterates over: the missing ones chained with the
\* incomplete ones, both lists taken before the first download
Todo(p, d) ==
    filter_objects(p, d, "Missing") \o filter_objects(p, d, "Incomplete")

DownloadHandle(r, p, fetchOk, d) ==
    IF ~fetchOk THEN Err("Download", r, None, p, "download")
    ELSE IF AllReady(d, p) THEN Ok("Install", r, None, p)
    ELSE Err("Download", r, None, p, "not ready")

DownloadStep ==
    /\ Running("Download")
    /\ \E out \in [ShaSet(pkg) -> DlOutcomes], hook \in Hooks :
         LET foreign == Foreign(dir, pkg)
             d1 == Remove(dir, foreign)
             corrupted == Corrupted(d1, pkg)
             d2 == Remove(d1, corrupted)
             todo == Todo(pkg, d2)
             f == FetchAll(d2, todo, out)
         IN /\ dir' = f.dir
            /\ Drive("Download", DownloadHandle(rs, pkg, f.ok, f.dir), hook,
                     [NoEv EXCEPT !.removed = foreign \cup corrupted,
                                  !.fetched = f.fetched])
    /\ UNCHANGED <<settings, disk, clock>>

\* --------------------------------------------------------------- Install
\* (mutant) the probe-now flag is set only in a deployment that saves it
InstallSettings_OnlyWhenSaved(r) == IF Saves THEN [r EXCEPT !.now = TRUE] ELSE r

InstallSettings(r) == [r EXCEPT !.now = TRUE]

\* (mutant) the result of the save is not looked at
InstallHandle_IgnoresSaveError(r, p, saved) ==
    Ok("Reboot", r, Some(package_uid(p)), NoPkg)

InstallHandle(r, p, saved) ==
    IF Saves /\ ~saved THEN Err("Install", r, None, p, "save")
    ELSE Ok("Reboot", r, Some(package_uid(p)), NoPkg)

\* (mutant) Install clears download_dir once the settings are saved
InstallStep_CleansUp ==
    /\ Running("Install")
    /\ \E saveOk \in BOOLEAN, hook \in Hooks :
         LET r == InstallSettings(rs)
             saved == Saves /\ saveOk
         IN /\ disk' = IF saved THEN r ELSE disk
            /\ dir' = IF saved THEN [n \in Names |-> "absent"] ELSE dir
            /\ Drive("Install", InstallHandle(r, pkg, saved), hook,
                     [NoEv EXCEPT !.saved = saved])
    /\ UNCHANGED <<settings, clock>>

InstallStep ==
    /\ Running("Install")
    /\ \E saveOk \in BOOLEAN, hook \in Hooks :
         LET r == InstallSettings(rs)
             saved == Saves /\ saveOk
         IN /\ disk' = IF saved THEN r ELSE disk
            /\ Drive("Install", InstallHandle(r, pkg, saved), hook,
                     [NoEv EXCEPT !.saved = saved])
    /\ UNCHANGED <<settings, dir, clock>>

\* ---------------------------------------------------------------- Reboot
\* (mutant) the result of the reboot command is not looked at
RebootHandle_IgnoresFailure(r, a, cmdOk) == Ok("Idle", r, a, NoPkg)

RebootHandle(r, a, cmdOk) ==
    IF ~cmdOk THEN Err("Reboot", r, a, NoPkg, "reboot")
    ELSE Ok("Idle", r, a, NoPkg)

RebootStep ==
    /\ Running("Reboot")
    /\ \E cmdOk \in BOOLEAN, hook \in Hooks :
         Drive("Reboot", RebootHandle(rs, applied, cmdOk), hook,
               [NoEv EXCEPT !.rebooted = cmdOk])
    /\ UNCHANGED <<settings, disk, dir, clock>>

\* ----------------------------------------------------------------- clock
\* Time passes. Only Poll::handle reads the clock, so the time that passes
\* between two readings is accounted for while Poll is about to be handled.
Tick ==
    /\ Running("Poll")
    /\ poll = NoThreads
    /\ clock < MaxTime
    /\ clock' = clock + 1
    /\ UNCHANGED <<settings, rs, disk, applied, state, pkg, dir, run, poll, ev>>

\* --------------------------------------------------------------- Init/Next
RsInit ==
    { [last |-> l, now |-> n, extra |-> x, retries |-> 0] :
        l \in {None, Some(StartTime - 1), Some(StartTime + 1)},
        n \in BOOLEAN,
        x \in {None, Some(1)} }

DirInit ==
    { d \in [Names -> {"absent", "short", "bad", "good", "unreadable"}] :
        /\ d[Leftover] \in {"absent", "good"}
        /\ d["b"] \in {"absent", "good"} }

Init ==
    /\ settings \in [enabled : BOOLEAN, interval : {1, MaxInterval},
                     read_only : BOOLEAN]
    /\ rs \in RsInit
    /\ disk = rs
    /\ applied = None
    /\ state = "Idle"
    /\ pkg = NoPkg
    /\ dir \in DirInit
    /\ clock = StartTime
    /\ run = "running"
    /\ poll = NoThreads
    /\ ev = NoEv

Next ==
    \/ IdleStep
    \/ PollStep
    \/ PollWait
    \/ WorkerNotify
    \/ PollWoken
    \/ ProbeFail
    \/ ProbeSucceed
    \/ DownloadStep
    \/ InstallStep
    \/ RebootStep
    \/ Tick

Spec == Init /\ [][Next]_vars

\* The deployments that have never polled, with a server that eventually
\* answers a device that keeps probing
FairInit == Init /\ rs.last = None
FairSpec == FairInit /\ [][Next]_vars /\ WF_vars(ProbeSucceed)

\* ================================================================= claims
\* The step just taken was the handling of state s by the driver.
Handled(s) == state = s /\ ev'.kind = s

\* The step just taken is Poll::handle starting: it reads the clock and the
\* runtime settings and returns at once or spawns the worker (Tick, the only
\* other step possible here, moves the clock).
PollBegins == state = "Poll" /\ poll = NoThreads /\ clock' = clock

\* C1: when the state-change-callback returns cancel for a state X that has
\* a callback name, the state the driver handles next is Idle, whatever X's
\* handle returned.
C1_CancelGoesToIdle ==
    ev.verdict = "Cancel" => (run = "running" /\ state = "Idle")

\* C1 witness: Install's handle returned Reboot, the callback cancelled, and
\* the driver is in Idle.
C1_Witness ==
    ev.kind = "Install" /\ ev.verdict = "Cancel" /\ state = "Idle"

\* C2 (as claimed): when the callback cancels state X, X's handle was not
\* executed: no runtime-settings save, no file removed, nothing downloaded, no
\* reboot command, and Idle carries the context as it was on entry to X.
C2_CancelSkipsHandle ==
    [][ev'.verdict = "Cancel" =>
          /\ ~ev'.saved /\ ev'.removed = {} /\ ev'.fetched = <<>> /\ ~ev'.rebooted
          /\ disk' = disk /\ dir' = dir
          /\ rs' = rs /\ applied' = applied]_vars

\* C3: k failed attempts followed by a success inside one Probe make k+1
\* attempts; each failure adds one to polling.retries and Probe returns with
\* polling.retries = 0.
C3_RetryAccounting ==
    /\ [](ev.kind = "Probe" => (rs.retries = 0 /\ ev.attempts = ev.fails + 1))
    /\ [][ev'.kind = "ProbeRetry" =>
            (state' = "Probe" /\ rs'.retries = rs.retries + 1)]_vars

\* C3 witness: Probe returned after two failed attempts and a success.
C3_Witness ==
    ev.kind = "Probe" /\ ev.fails = 2 /\ ev.attempts = 3 /\ rs.retries = 0

\* C4 (as claimed): after a successful probe the response alone determines
\* Probe's result: NoUpdate -> extra_interval cleared, Idle, applied uid kept;
\* ExtraPoll(n) -> extra_interval = Some(n), Poll; Update(pkg), compatible and
\* not the applied package -> extra_interval cleared, Download with pkg.
C4_ResponseDecides ==
    [][Handled("Probe") =>
          /\ ev'.resp = "NoUpdate" =>
                (run' = "running" /\ state' = "Idle"
                    /\ rs'.extra = None /\ applied' = applied)
          /\ ev'.resp = "ExtraPoll" =>
                (run' = "running" /\ state' = "Poll"
                    /\ rs'.extra = Some(ev'.secs))
          /\ (ev'.resp = "Update" /\ ev'.hw_ok /\ Some(ev'.uid) # applied) =>
                (run' = "running" /\ state' = "Download"
                    /\ rs'.extra = None /\ package_uid(pkg') = ev'.uid)
          /\ run' = "running" => state' \in {"Idle", "Poll", "Download"}]_vars

\* C4 (amended): the same, provided the save of the runtime settings did not
\* fail (it succeeded, or the deployment is read-only); when the save fails
\* Probe returns an error, whatever the response.
C4_ResponseDecidesUnlessSaveFails ==
    [][Handled("Probe") =>
          /\ (ev'.resp = "NoUpdate" /\ ev'.err # "save") =>
                (run' = "running" /\ state' = "Idle"
                    /\ rs'.extra = None /\ applied' = applied)
          /\ (ev'.resp = "ExtraPoll" /\ ev'.err # "save") =>
                (run' = "running" /\ state' = "Poll"
                    /\ rs'.extra = Some(ev'.secs))
          /\ (ev'.resp = "Update" /\ ev'.hw_ok /\ Some(ev'.uid) # applied
                /\ ev'.err # "save") =>
                (run' = "running" /\ state' = "Download"
                    /\ rs'.extra = None /\ package_uid(pkg') = ev'.uid)
          /\ ev'.err = "save" <=> (Saves /\ ~ev'.saved)
          /\ ev'.err = "save" => run' = "panicked"
          /\ run' = "running" => state' \in {"Idle", "Poll", "Download"}]_vars

\* C4 witness: Probe answered NoUpdate while an extra interval was set; it
\* is cleared and the driver is in Idle.
C4_Witness ==
    /\ ev.kind = "Probe" /\ ev.resp = "NoUpdate" /\ ev.saved
    /\ disk.extra = None /\ rs.extra = None /\ state = "Idle"
    /\ settings.enabled

\* C5 (as claimed): with applied_package_uid = Some(U), an Update(pkg) with
\* pkg.package_uid = U (compatible) sends Probe to Idle; download_object is
\* not invoked and no file of download_dir is created or removed.
C5_SamePackageSkipped ==
    [][(Handled("Probe") /\ ev'.resp = "Update" /\ ev'.hw_ok
            /\ applied = Some(ev'.uid)) =>
          /\ run' = "running" /\ state' = "Idle"
          /\ ev'.fetched = <<>> /\ ev'.removed = {} /\ dir' = dir]_vars

\* C5 (amended): the same, the next state being Idle provided the save of the
\* runtime settings did not fail; when it fails Probe returns an error. In
\* both cases Download is not entered and download_dir is untouched.
C5_SamePackageSkippedUnlessSaveFails ==
    [][(Handled("Probe") /\ ev'.resp = "Update" /\ ev'.hw_ok
            /\ applied = Some(ev'.uid)) =>
          /\ ev'.err # "save" =>
                (run' = "running" /\ state' = "Idle" /\ applied' = applied)
          /\ ev'.err = "save" => run' = "panicked"
          /\ state' # "Download"
          /\ ev'.fetched = <<>> /\ ev'.removed = {} /\ dir' = dir]_vars

\* C5 witness: the applied package was advertised again and Probe went to
\* Idle.
C5_Witness ==
    /\ ev.kind = "Probe" /\ ev.resp = "Update" /\ applied = Some(ev.uid)
    /\ state = "Idle" /\ run = "running"

\* C6: an Update(pkg) that is not compatible with the firmware makes Probe
\* return an error: Download is not entered, the driver panics and handles
\* no further state.
C6_IncompatibleIsFatal ==
    /\ []((ev.kind = "Probe" /\ ev.resp = "Update" /\ ~ev.hw_ok) =>
            (run = "panicked" /\ state # "Download"))
    /\ [][run = "running"]_vars

\* C6 witness: the hardware check failed and the driver panicked.
C6_Witness ==
    ev.kind = "Probe" /\ ev.resp = "Update" /\ ~ev.hw_ok
        /\ ev.err = "hardware" /\ run = "panicked"

\* C7: with polling.now set on entering Poll the next state is Probe and
\* Poll does not sleep, whatever last, extra_interval and the interval are.
C7_ProbeNow ==
    [][(PollBegins /\ rs.now) =>
          (Handled("Poll") /\ run' = "running" /\ state' = "Probe"
              /\ ev'.slept = 0 /\ poll' = NoThreads)]_vars

\* C7 witness: Poll went to Probe on the flag alone: the last poll is not in
\* the future and its deadline has not passed.
C7_Witness ==
    /\ ev.kind = "Poll" /\ rs.now /\ state = "Probe"
    /\ rs.last # None /\ rs.last[1] <= clock
    /\ rs.last[1] + unwrap_or(rs.extra, 0) >= clock

\* C8: with polling.last later than the current time on entering Poll
\* (polling.now false) the next state is Probe, reached without sleeping.
C8_LastInFuture ==
    [][(PollBegins /\ ~rs.now /\ rs.last # None /\ rs.last[1] > clock) =>
          (Handled("Poll") /\ run' = "running" /\ state' = "Probe"
              /\ ev'.slept = 0 /\ poll' = NoThreads)]_vars

\* C8 witness: Poll was handled with the last poll in the future.
C8_Witness ==
    /\ ev.kind = "Poll" /\ ~rs.now /\ state = "Probe"
    /\ rs.last # None /\ rs.last[1] > clock /\ ev.slept = 0

C10_ExtraPollHonoured ==
    (ev.kind = "Poll" /\ ev.after_extra # None) =>
        /\ ev.slept > 0
        /\ clock - ev.after_extra[1].at >= ev.after_extra[1].n

C13_ReadOnlySameRun ==
    /\ [][settings.read_only => (disk' = disk /\ ~ev'.saved)]_vars
    /\ [][(~settings.read_only /\ ev'.saved) => disk' = rs']_vars
    /\ [][(Handled("Probe") \/ Handled("Install")) =>
            (ev'.err # "save" <=> (settings.read_only \/ ev'.saved))]_vars
    /\ [][(Handled("Probe") /\ ev'.err # "save") =>
            /\ rs' = [rs EXCEPT !.retries = 0,
                                !.extra = IF ev'.resp = "ExtraPoll"
                                          THEN Some(ev'.secs) ELSE None]
            /\ <<run', state', applied'>> =
                 CASE ev'.resp = "NoUpdate" -> <<"running", "Idle", applied>>
                   [] ev'.resp = "ExtraPoll" -> <<"running", "Poll", applied>>
                   [] ev'.resp = "Update" /\ ~ev'.hw_ok ->
                        <<"panicked", "Probe", applied>>
                   [] ev'.resp = "Update" /\ ev'.hw_ok
                        /\ applied = Some(ev'.uid) ->
                        <<"running", "Idle", applied>>
                   [] OTHER -> <<"running", "Download", None>>
            /\ state' = "Download" => package_uid(pkg') = ev'.uid]_vars
    /\ [][(Handled("Install") /\ ev'.err # "save") =>
            /\ rs' = [rs EXCEPT !.now = TRUE]
            /\ applied' = Some(package_uid(pkg))
            /\ <<run', state'>> =
                 CASE ev'.verdict \in {"NotRun", "Continue"} ->
                        <<"running", "Reboot">>
                   [] ev'.verdict = "Cancel" -> <<"running", "Idle">>
                   [] OTHER -> <<"panicked", "Install">>]_vars

\* C13 witness: a read-only deployment went through Probe and Install to
\* Reboot; the flag is set in memory and the file is as it was loaded.
C13_Witness ==
    /\ settings.read_only /\ ev.kind = "Install" /\ state = "Reboot"
    /\ rs.now /\ ~disk.now /\ rs.retries = 0 /\ ~ev.saved

\* The elements of a sequence
Range(q) == {q[i] : i \in 1..Len(q)}

C15_CorruptedRefetched ==
    [][Handled("Download") =>
          \A o \in ShaSet(pkg) :
              ObjectStatus(dir, o) = "Corrupted" =>
                  /\ o \in ev'.removed
                  /\ \/ ObjectStatus(dir', o) = "Ready" /\ o \in Range(ev'.fetched)
                     \/ ev'.err \in {"download", "not ready"}
                  /\ state' = "Install" => ObjectStatus(dir', o) = "Ready"]_vars

\* C15 witness: a corrupted object was removed and downloaded again, and
\* Download went to Install.
C15_Witness ==
    /\ ev.kind = "Download" /\ state = "Install" /\ "a" \in ev.removed
    /\ "a" \in Range(ev.fetched) /\ ObjectStatus(dir, "a") = "Ready"

\* download_dir holds exactly the objects of p, all of them Ready (or of a
\* status that cannot be computed: such a file is left alone)
Clean(d, p) ==
    /\ {n \in Names : d[n] # "absent"} = ShaSet(p)
    /\ \A o \in ShaSet(p) : ObjectStatus(d, o) \in {"Ready", "Error"}

C17_ReadinessGate ==
    [][Handled("Download") =>
          LET ready == \A o \in ShaSet(pkg) : ObjectStatus(dir', o) = "Ready"
          IN /\ ev'.err \in {"none", "callback"} <=> ready
             /\ (ev'.err # "download" /\ ~ready) =>
                    (ev'.err = "not ready" /\ run' = "panicked")
             /\ state' = "Install" => (ready /\ run' = "running")
             /\ (ready /\ ev'.verdict \in {"NotRun", "Continue"}) =>
                    state' = "Install"]_vars

\* C17 witness: the download of b succeeded, the status of a cannot be
\* computed, and Download failed at the gate.
C17_Witness ==
    /\ ev.kind = "Download" /\ ev.err = "not ready" /\ run = "panicked"
    /\ pkg = PkgAB /\ ev.fetched = <<"b">> /\ dir["b"] = "good"
    /\ ObjectStatus(dir, "a") = "Error"

\* C18: Install sets polling.now and makes applied_package_uid the uid of
\* the package; unless read-only it saves the runtime settings, flag included,
\* and this save is the first and only effect of Install outside its own
\* memory; it then returns Reboot carrying the applied uid. If the save fails
\* Install returns an error and Reboot is not entered.
C18_InstallPersistsThenReboots ==
    [][Handled("Install") =>
          /\ rs' = [rs EXCEPT !.now = TRUE]
          /\ ev'.saved => (~settings.read_only /\ disk' = rs' /\ disk'.now)
          /\ ~ev'.saved => disk' = disk
          /\ dir' = dir /\ ~ev'.rebooted /\ ev'.fetched = <<>>
          /\ (settings.read_only \/ ev'.saved) =>
                /\ ev'.err \in {"none", "callback"}
                /\ applied' = Some(package_uid(pkg))
                /\ ev'.verdict \in {"NotRun", "Continue"} =>
                      (run' = "running" /\ state' = "Reboot")
          /\ (~settings.read_only /\ ~ev'.saved) =>
                (ev'.err = "save" /\ run' = "panicked" /\ state' # "Reboot"
                    /\ ev'.verdict = "NotRun")]_vars

\* C18 witness: Install saved the settings with the flag set and the driver
\* is in Reboot with the uid of the installed package.
C18_Witness ==
    /\ ev.kind = "Install" /\ ev.saved /\ state = "Reboot"
    /\ disk = rs /\ rs.now /\ applied = Some("u1")

\* An Update for a compatible package that is not the applied one
NewUpdate == ev'.resp = "Update" /\ ev'.hw_ok /\ applied # Some(ev'.uid)

\* Every download_object call of the step delivered its object
Delivered == ev'.err # "download" /\ \A o \in Range(ev'.fetched) : dir'[o] = "good"

\* The callback did not cancel the step
NotCancelled == ev'.verdict # "Cancel"

Sound ==
    /\ ev'.err \notin {"save", "callback"}
    /\ \A o \in ShaSet(pkg) : ObjectStatus(dir, o) # "Error"

Pieces == {Cancel_str, <<" ">>, <<"\n">>, <<"\t">>, <<"x">>}

RECURSIVE Concat(_)
Concat(q) == IF q = <<>> THEN <<>> ELSE Head(q) \o Concat(Tail(q))

Outputs ==
    UNION {{Concat(q) : q \in [1..k -> Pieces]} : k \in 0..MaxPieces}

\* The output without its leading and trailing whitespace
Trimmed(o) ==
    LET ink == {i \in 1..Len(o) : o[i] \notin Whitespace}
    IN IF ink = {} THEN <<>>
       ELSE SubSeq(o, CHOOSE i \in ink : \A j \in ink : i <= j,
                      CHOOSE i \in ink : \A j \in ink : i >= j)

\* The verdict the protocol prescribes for an output
Verdict(o) ==
    IF Trimmed(o) = Cancel_str THEN "Cancel"
    ELSE IF Trimmed(o) = <<>> THEN "Continue"
    ELSE "Error"

CallbackProtocol ==
    /\ \A h \in Hooks \cup {[exists |-> TRUE, out |-> o] : o \in Outputs} :
           state_change_callback(None, h) = "Continue"
    /\ \A n \in {"download", "install", "reboot"} :
           /\ state_change_callback(Some(n), NoHook) = "Continue"
           /\ \A o \in Outputs \cup HookOutputs :
                  state_change_callback(Some(n), [exists |-> TRUE, out |-> o])
                      = Verdict(o)
    /\ Verdict(Cancel_str \o <<" ", "x", "\n">>) = "Error"
    /\ Verdict(<<" ", "\n">> \o Cancel_str \o <<"\n">>) = "Cancel"

C21_LastIsLastProbe ==
    (ev.kind = "Probe" /\ run = "running") => rs.last = Some(ev.at)

\* The step is a probe request: a failed or a successful attempt of Probe
ProbeRequest == state = "Probe" /\ ev'.kind \in {"ProbeRetry", "Probe"}

\* C22 (as claimed): in a deployment that is not read-only, whenever a state
\* returns to the driver the saved runtime settings equal the ones in memory,
\* and no probe request is made while a mutation of the runtime settings is
\* not yet saved.
C22_SavedBeforeEffects ==
    /\ [][(~settings.read_only /\ run' = "running"
             /\ \E s \in {"Idle", "Poll", "Probe", "Download", "Install", "Reboot"} :
                    Handled(s)) => disk' = rs']_vars
    /\ [][(~settings.read_only /\ ProbeRequest) => disk = rs]_vars

\* C23 (as claimed): polling.now is consumed by the Poll it short-circuits:
\* once that Poll has handed over to Probe and Probe has returned, the flag
\* is no longer set, so that the Poll entries that follow are scheduled by
\* last, extra_interval and the interval.
C23_NowConsumed ==
    [][(Handled("Probe") /\ run' = "running") => ~rs'.now]_vars

\* The moment at which a Poll begun now, by a device that has never polled
\* and drew offset o, hands over to Probe
HandOver(o) ==
    LET last_poll == LastPoll(rs, clock, o)
        d == PollDecision(rs, last_poll, clock)
    IN clock + PollSleep(d, rs, last_poll, clock)

\* C24 (as claimed): for a device that has never polled (polling.last = None,
\* polling.now false) the hand-over to Probe depends on the offset drawn:
\* two different offsets of [0, interval) do not hand over at the same time.
C24_OffsetStaggers ==
    (Running("Poll") /\ poll = NoThreads /\ rs.last = None /\ ~rs.now) =>
        \A o1, o2 \in 0..(settings.interval - 1) :
            o1 # o2 => HandOver(o1) # HandOver(o2)

\* The states that carry an applied_package_uid
Carriers == {"Idle", "Park", "Poll", "Probe", "Reboot"}

\* C25 (as claimed): an applied_package_uid, once set, is carried unchanged
\* from state to state (only Install replaces it), and the Idle that follows
\* a cancelled Download carries the uid Probe held when it went to Download.
C25_AppliedUidKept ==
    /\ [][(applied # None /\ state \in Carriers /\ state' \in Carriers
             /\ run' = "running") => applied' = applied]_vars
    /\ [][(Handled("Download") /\ ev.kind = "Probe" /\ ev.had # None
             /\ run' = "running" /\ state' \in Carriers) =>
            applied' = ev.had]_vars

\* C26: a failed probe attempt leaves the driver running in Probe with no
\* error and one more attempt counted; Probe is left only by a step in which
\* the server answered; and, the server eventually answering, a running Probe
\* eventually returns.
C26_ProbeRetriesUntilAnswered ==
    /\ [][(state = "Probe" /\ ev'.kind = "ProbeRetry") =>
            /\ state' = "Probe" /\ run' = "running" /\ ev'.err = "none"
            /\ ev'.attempts = ev.attempts + 1
            /\ applied' = applied /\ pkg' = pkg]_vars
    /\ [][(Running("Probe") /\ ~(state' = "Probe" /\ run' = "running")) =>
            ev'.resp \in {"NoUpdate", "ExtraPoll", "Update"}]_vars
    /\ (Running("Probe") ~> ~Running("Probe"))

\* Probe has failed MaxFails times in a row and is still running in Probe
C26_Witness ==
    Running("Probe") /\ ev.kind = "ProbeRetry" /\ ev.fails = MaxFails

IsPrefix(s, t) == Len(s) <= Len(t) /\ SubSeq(t, 1, Len(s)) = s

\* C27: in a Download step the objects download_object was called for are,
\* in order, the objects Missing once the pruning is done and then the
\* Incomplete ones (all of them unless a download failed, which ends the
\* loop), each at most once and none of them Ready; what a completed download
\* left is still there at the end, so no removal came after it; a removed file
\* that was not downloaded again is absent; an Incomplete object's file is
\* not removed.
C27_PruneThenFetch ==
    [][Handled("Download") =>
         LET f == ev'.fetched
             gone == ev'.removed
             after(o) == IF o \in gone THEN "Missing" ELSE ObjectStatus(dir, o)
             expected == SelectSeq(pkg.objects, LAMBDA o : after(o) = "Missing")
                           \o SelectSeq(pkg.objects,
                                        LAMBDA o : after(o) = "Incomplete")
         IN /\ IsPrefix(f, expected)
            /\ (ev'.err # "download" => f = expected)
            /\ \A i, j \in 1..Len(f) : i # j => f[i] # f[j]
            /\ \A i \in 1..Len(f) :
                 /\ ObjectStatus(dir, f[i]) # "Ready"
                 /\ (i < Len(f) \/ ev'.err # "download") =>
                        dir'[f[i]] \in {"good", "bad"}
            /\ \A n \in gone : n \notin Range(f) => dir'[n] = "absent"
            /\ \A o \in ShaSet(pkg) :
                 ObjectStatus(dir, o) = "Incomplete" =>
                     o \notin gone /\ dir'[o] # "absent"]_vars

\* A Download that removed a file and then fetched the missing object b
\* before the incomplete object a
C27_Witness ==
    ev.kind = "Download" /\ ev.removed # {} /\ ev.fetched = <<"b", "a">>

\* C28: when a download_object call fails, Download returns the error (the
\* driver stops in Download, the callback is not consulted, Install is not
\* entered); the failed call is the last one made, every call before it
\* completed; an object no call was made for keeps its file as the pruning
\* left it; and every complete or partial file the package's objects had
\* when Download began is still there.
C28_DownloadFailureAborts ==
    [][(Handled("Download") /\ ev'.err = "download") =>
         LET f == ev'.fetched IN
         /\ run' = "panicked" /\ state' = "Download"
         /\ ev'.verdict = "NotRun"
         /\ f # <<>>
         /\ \A i \in 1..(Len(f) - 1) : dir'[f[i]] \in {"good", "bad"}
         /\ dir'[f[Len(f)]] \in {"absent", "short"}
         /\ \A o \in ShaSet(pkg) \ Range(f) :
              dir'[o] = IF o \in ev'.removed THEN "absent" ELSE dir[o]
         /\ \A o \in ShaSet(pkg) :
              dir[o] \in {"good", "short"} => dir'[o] # "absent"]_vars

\* The download of a failed part-way while b was still to be fetched
C28_Witness ==
    /\ ev.kind = "Download" /\ ev.err = "download" /\ run = "panicked"
    /\ pkg = PkgAB /\ ev.fetched = <<"a">>
    /\ dir["a"] = "short" /\ dir["b"] = "absent"

\* C29: a step that changes download_dir is a Download step, and a step that
\* changes the runtime-settings file is a Probe or an Install step; so Idle,
\* Park, Poll and Reboot change neither, Download leaves the file alone, and
\* Probe and Install leave download_dir alone.
C29_WhoWritesWhat ==
    [][/\ dir' # dir => Handled("Download")
       /\ disk' # disk => (Handled("Probe") \/ Handled("Install"))]_vars

\* Install has just written the settings file, after a Download that left
\* exactly the objects of the package in download_dir
C29_Witness ==
    /\ ev.kind = "Install" /\ ev.saved /\ disk = rs
    /\ AllReady(dir, PkgAB) /\ dir[Leftover] = "absent"

\* C30: no step taken in Poll changes the runtime settings, in memory or on
\* disk, and the Probe that Poll hands over to receives them as Poll got
\* them: a polling.last of None is still None.
C30_PollKeepsSettings ==
    /\ [][state = "Poll" => (rs' = rs /\ disk' = disk)]_vars
    /\ [][(Handled("Poll") /\ rs.last = None) =>
            (state' = "Probe" /\ rs'.last = None)]_vars

\* An unpolled device enters Poll again, after the Probe an earlier Poll
\* handed over to was told to come back later
C30_Witness ==
    /\ Running("Poll") /\ poll = NoThreads
    /\ ev.kind = "Probe" /\ ev.resp = "ExtraPoll"
    /\ rs.last = None /\ ~rs.now

\* C31 (as claimed): on the sleep path the state's thread returns from the
\* wait only once the interval has elapsed since Poll read the clock, and the
\* worker's notification is never lost: the state's thread is never left
\* waiting on the condition variable after the worker has notified and ended.
C31_NotificationNeverLost ==
    /\ [][(Handled("Poll") /\ ev'.slept = 1) =>
            clock' >= ev'.at + settings.interval]_vars
    /\ [](Running("Poll") => ~(poll.main = "waiting" /\ poll.worker = "done"))

\* C32: in a deployment that is not read-only, when Probe returns the
\* hardware error for an incompatible Update(pkg), or goes to Idle because
\* pkg is the applied package, the runtime-settings file has been written in
\* that Probe and holds the settings Probe ends with: retries = 0 and
\* extra_interval = None.
C32_SavedBeforeChecks ==
    [][(/\ Handled("Probe") /\ ~settings.read_only /\ ev'.resp = "Update"
        /\ \/ ev'.err = "hardware"
           \/ (run' = "running" /\ state' = "Idle")) =>
         /\ ev'.saved
         /\ disk' = rs'
         /\ disk'.retries = 0 /\ disk'.extra = None]_vars

\* Probe failed on an incompatible package after a failed attempt, with the
\* file written
C32_Witness ==
    /\ ev.kind = "Probe" /\ ev.resp = "Update" /\ ev.err = "hardware"
    /\ ev.fails > 0 /\ ~settings.read_only
    /\ disk.retries = 0 /\ disk.extra = None
====
